---- MODULE Spec2Model ----
(***************************************************************************)
(* Membership & payment ledger of the Gym Management System                *)
(* (src/db.py, src/main.py).                                               *)
(*                                                                         *)
(* The state is the content of the two tables as seen through the single   *)
(* sqlite3 connection of the application, the rows shown in the            *)
(* member-management tree, in the search-results tree and in the report    *)
(* tree with its summary line, the member bound on the payment tab and the *)
(* dialog shown by the last handler.  Text values whose shape matters      *)
(* (user_id, cnic, month, dates) are sequences of one-character strings.   *)
(* The photo files, the photo attached to the member form and the row of   *)
(* the members tree that has the focus are followed as well, and so are    *)
(* the instances of the application that run on the same database file.    *)
(***************************************************************************)
EXTENDS Integers, Sequences, FiniteSets, TLC

VARIABLES phase, members, payments, members_tree, current_member, last,
          search_results, report_tree, summary_label,
          photos, photo_path, focus, clients

vars == <<phase, members, payments, members_tree, current_member, last,
          search_results, report_tree, summary_label,
          photos, photo_path, focus, clients>>

----------------------------------------------------------------------------
(* Bounds of the model *)

MaxPayments == 2

----------------------------------------------------------------------------
(* Program constants *)

TreadmillFee == 400

CnicLen == 13

Digits == {"0", "1", "2", "3", "4", "5", "6", "7", "8", "9"}

MembershipTypes == {"15-day", "30-day"}

NULL == "NULL"

(* float('nan'), which float() returns for the text "nan": the model's fees *)
(* are integers, and NaN is the one value below them all.                   *)
NaN == -1

(* a <= b for two floats: every comparison with NaN is false *)
FloatLE(a, b) == a # NaN /\ b # NaN /\ a <= b

(* a + b for two floats *)
FloatAdd(a, b) == IF a = NaN \/ b = NaN THEN NaN ELSE a + b

(* NoMember with the binding of member 1 left in place *)
NoMemberStillBound ==
    [bound |-> TRUE, user_id |-> <<"1">>, membership_type |-> "30-day", total_fee |-> 1]

(* hasattr(self, 'current_member') is current_member.bound; the other fields *)
(* are columns 0, 9 and 12 of the row fetched by search_member.               *)
NoMember == [bound |-> FALSE, user_id |-> <<>>, membership_type |-> "", total_fee |-> 0]

----------------------------------------------------------------------------
(* Input domains *)

RECURSIVE Rep(_, _)
Rep(c, n) == IF n = 0 THEN <<>> ELSE <<c>> \o Rep(c, n - 1)

U1 == <<"1">>

U01 == <<"0", "1">>

U2 == <<"2">>

UBad == <<"x">>

UserIds == {U1, U01, U2}

CnicA == Rep("1", CnicLen)

CnicB == Rep("2", CnicLen)

CnicShort == Rep("1", CnicLen - 1)

Cnics == {CnicA, CnicB}

M06 == <<"2", "0", "2", "4", "-", "0", "6">>

M07 == <<"2", "0", "2", "4", "-", "0", "7">>

MBad == <<"2", "0", "2", "4", "-", "6">>

Months == {M06, M07}

M12 == <<"2", "0", "2", "4", "-", "1", "2">>

(* Dates as typed into the expiry-date entry *)
D0630 == <<"2", "0", "2", "4", "-", "0", "6", "-", "3", "0">>

D0630Short == <<"2", "0", "2", "4", "-", "6", "-", "3", "0">>

D0701 == <<"2", "0", "2", "4", "-", "0", "7", "-", "0", "1">>

D1231 == <<"2", "0", "2", "4", "-", "1", "2", "-", "3", "1">>

D0631 == <<"2", "0", "2", "4", "-", "0", "6", "-", "3", "1">>

Dates == {D0630, D0630Short, D0701, D1231, D0631}

BaseFee == 1000

DatedForm(user_id, cnic, membership, has_treadmill, base_fee, expiry_date) ==
    [user_id |-> user_id, cnic |-> cnic, membership |-> membership,
     has_treadmill |-> has_treadmill, base_fee |-> base_fee,
     expiry_date |-> expiry_date]

(* A member form whose expiry date is 2024-06-30 *)
Form(user_id, cnic, membership, has_treadmill, base_fee) ==
    DatedForm(user_id, cnic, membership, has_treadmill, base_fee, D0630)

Plans == {<<"30-day", FALSE>>, <<"30-day", TRUE>>}

(* Entries of the member form that one of the field checks rejects *)
InvalidForms ==
    { Form(UBad, CnicA, "30-day", FALSE, BaseFee),
      Form(U1, CnicShort, "30-day", FALSE, BaseFee),
      Form(U1, CnicA, "", FALSE, BaseFee),
      Form(U1, CnicA, "30-day", FALSE, 0),
      DatedForm(U1, CnicA, "30-day", FALSE, BaseFee, D0631) }

(* Entries of the member form whose base fee is the text "nan" *)
NaNForms ==
    { Form(U1, CnicA, "30-day", FALSE, NaN) }

(* Member forms of the member-management exploration: every user_id with     *)
(* every cnic under every plan.                                              *)
FormInputs ==
    { Form(u, c, k[1], k[2], BaseFee) : u \in UserIds, c \in Cnics, k \in Plans }
    \cup InvalidForms \cup NaNForms

(* Member forms of the ledger exploration: two members, one of which can     *)
(* switch the treadmill add-on.                                              *)
LedgerForms ==
    { Form(U1, CnicA, "30-day", FALSE, BaseFee),
      Form(U1, CnicA, "30-day", TRUE, BaseFee),
      Form(U01, CnicB, "15-day", FALSE, BaseFee),
      Form(U1, CnicA, "30-day", FALSE, 0) }

PaymentForm(amount, month, membership_type) ==
    [amount |-> amount, month |-> month, membership_type |-> membership_type]

(* Entries of the payment form that one of the field checks rejects *)
InvalidPayments ==
    { PaymentForm(0, M06, "30-day"),
      PaymentForm(BaseFee, MBad, "30-day"),
      PaymentForm(BaseFee, M06, "") }

(* Payment forms of the ledger exploration *)
PaymentInputs ==
    { PaymentForm(BaseFee, M06, "30-day"),
      PaymentForm(BaseFee, M06, "15-day"),
      PaymentForm(BaseFee, M07, "15-day"),
      PaymentForm(BaseFee + TreadmillFee, M06, "30-day") }
    \cup InvalidPayments

(* Payment forms of the member-management exploration *)
MemberPayments ==
    { PaymentForm(BaseFee, M06, "30-day"),
      PaymentForm(0, M06, "30-day") }

----------------------------------------------------------------------------
(* Validators and conversions *)

IsDigits(s) == \A i \in 1..Len(s) : s[i] \in Digits

validate_user_id(user_id) == Len(user_id) >= 1 /\ IsDigits(user_id)

validate_cnic(cnic) == Len(cnic) = CnicLen /\ IsDigits(cnic)

(* validate_month that accepts a one-digit month *)
validate_month_lenient(month) ==
    /\ Len(month) \in {6, 7}
    /\ \A i \in (1..Len(month)) \ {5} : month[i] \in Digits
    /\ month[5] = "-"

validate_month(month) ==
    /\ Len(month) = 7
    /\ \A i \in {1, 2, 3, 4, 6, 7} : month[i] \in Digits
    /\ month[5] = "-"

(* Treeview.item(...)['values'] hands back every all-digit cell as a Python *)
(* int; bound to a TEXT column the int is compared as its decimal text, so  *)
(* the key read out of the tree is the cell without its leading zeros.      *)
RECURSIVE StripZeros(_)
StripZeros(s) ==
    IF Len(s) > 1 /\ Head(s) = "0" THEN StripZeros(Tail(s)) ELSE s

TreeValue(cell) == IF validate_user_id(cell) THEN StripZeros(cell) ELSE cell

(* Code points of the characters that occur in the model's text values *)
CharCodes ==
    ("-" :> 45) @@ ("0" :> 48) @@ ("1" :> 49) @@ ("2" :> 50) @@ ("3" :> 51)
    @@ ("4" :> 52) @@ ("5" :> 53) @@ ("6" :> 54) @@ ("7" :> 55) @@ ("8" :> 56)
    @@ ("9" :> 57) @@ ("x" :> 120)

CharCode(c) == CharCodes[c]

(* int() of a string of decimal digits *)
RECURSIVE ToIntFrom(_, _, _)
ToIntFrom(s, i, acc) ==
    IF i > Len(s) THEN acc
    ELSE ToIntFrom(s, i + 1, 10 * acc + (CharCode(s[i]) - CharCode("0")))

ToInt(s) == ToIntFrom(s, 1, 0)

DigitChars == <<"0", "1", "2", "3", "4", "5", "6", "7", "8", "9">>

(* The decimal text of n, zero-padded to width w, as %Y, %m and %d print it *)
RECURSIVE Padded(_, _)
Padded(n, w) ==
    IF w = 0 THEN <<>> ELSE Padded(n \div 10, w - 1) \o <<DigitChars[(n % 10) + 1]>>

IsLeap(year) == (year % 4 = 0 /\ year % 100 # 0) \/ year % 400 = 0

DaysInMonth(year, month) ==
    IF month = 2 THEN (IF IsLeap(year) THEN 29 ELSE 28)
    ELSE IF month \in {4, 6, 9, 11} THEN 30 ELSE 31

(* The fields of a text of the form Y-m-d whose second hyphen is at position *)
(* second                                                                    *)
DateFields(s, second) ==
    [year |-> SubSeq(s, 1, 4), month |-> SubSeq(s, 6, second - 1),
     day |-> SubSeq(s, second + 1, Len(s))]

(* The fields name a calendar day: four year digits, one or two month       *)
(* digits, one or two day digits, a month of the year and a day of it.      *)
IsCalendarDay(f) ==
    /\ IsDigits(f.year)
    /\ Len(f.month) \in {1, 2} /\ IsDigits(f.month)
    /\ Len(f.day) \in {1, 2} /\ IsDigits(f.day)
    /\ ToInt(f.year) >= 1
    /\ ToInt(f.month) \in 1..12
    /\ ToInt(f.day) \in 1..DaysInMonth(ToInt(f.year), ToInt(f.month))

(* datetime.strptime(date_str, "%Y-%m-%d") succeeds *)
strptime(date_str) ==
    /\ Len(date_str) >= 8
    /\ date_str[5] = "-"
    /\ \E second \in {7, 8} :
          /\ date_str[second] = "-"
          /\ IsCalendarDay(DateFields(date_str, second))

(* strptime worked out once for the dates typed into the model's forms *)
ParsedDates == {d \in Dates : strptime(d)}

validate_date(date_str) ==
    IF date_str \in Dates THEN date_str \in ParsedDates ELSE strptime(date_str)

(* The calendar date a validated text names *)
CalendarDate(date_str) ==
    LET f == DateFields(date_str, IF date_str[7] = "-" THEN 7 ELSE 8)
    IN  [year |-> ToInt(f.year), month |-> ToInt(f.month), day |-> ToInt(f.day)]

(* a < b for two TEXT values under SQLite's BINARY collation *)
RECURSIVE TextLess(_, _)
TextLess(a, b) ==
    IF b = <<>> THEN FALSE
    ELSE IF a = <<>> THEN TRUE
    ELSE IF Head(a) = Head(b) THEN TextLess(Tail(a), Tail(b))
    ELSE CharCode(Head(a)) < CharCode(Head(b))

(* ExpectedFee with the treadmill surcharge forgotten *)
ExpectedFeeNoSurcharge(base_fee, has_treadmill) == base_fee

ExpectedFee(base_fee, has_treadmill) ==
    FloatAdd(base_fee, IF has_treadmill THEN TreadmillFee ELSE 0)

----------------------------------------------------------------------------
(* Photo files *)

(* photo_path NULL, and the form without a photo_path attribute *)
NoPhoto == [dir |-> "", name |-> <<>>, ext |-> ""]

(* os.path.join('photos', f"member_{user_id}{ext}") *)
StoredPath(user_id, ext) == [dir |-> "photos", name |-> user_id, ext |-> ext]

(* Image files outside the photos directory that the file dialog can return; *)
(* the image of such a file is named after the file.                         *)
PhotoFiles ==
    { [dir |-> "home", name |-> <<"a">>, ext |-> ".jpg"],
      [dir |-> "home", name |-> <<"b">>, ext |-> ".jpg"],
      [dir |-> "home", name |-> <<"c">>, ext |-> ".gif"] }

PhotoFile(path, image) == [path |-> path, image |-> image]

(* os.path.exists(path) *)
FileExists(files, path) ==
    \/ path \in PhotoFiles
    \/ \E x \in files : x.path = path

(* The image that Image.open(path) reads *)
ImageOf(files, path) ==
    IF path \in PhotoFiles THEN path.name
    ELSE (CHOOSE x \in files : x.path = path).image

(* Image.open(src).save(dst): the image is read before dst is written *)
Saved(files, src, dst) ==
    {x \in files : x.path # dst} \cup {PhotoFile(dst, ImageOf(files, src))}

(* os.remove(path) *)
Removed(files, path) == {x \in files : x.path # path}

AllowedExtensions == {".jpg", ".png"}

----------------------------------------------------------------------------
(* Tables *)

MemberRow(user_id, cnic, membership_type, has_treadmill, base_fee, total_fee, is_active, expiry_date) ==
    [user_id |-> user_id, cnic |-> cnic, membership_type |-> membership_type,
     has_treadmill |-> has_treadmill, base_fee |-> base_fee,
     total_fee |-> total_fee, is_active |-> is_active, expiry_date |-> expiry_date,
     photo_path |-> NoPhoto]

(* The row with its photo_path column set *)
PhotoRow(row, path) == [row EXCEPT !.photo_path = path]

(* MemberConflicts with the UNIQUE constraint on cnic left out *)
MemberConflictsKeyOnly(rows, new) ==
    \E r \in rows : r.user_id = new.user_id

(* MemberConflicts that looks at active rows only *)
MemberConflictsActiveOnly(rows, new) ==
    \E r \in rows : r.is_active /\ (r.user_id = new.user_id \/ r.cnic = new.cnic)

(* PRIMARY KEY (user_id) and UNIQUE (cnic) of members: a new or rewritten  *)
(* row conflicts with any other row, active or not, that has its user_id   *)
(* or its cnic.                                                            *)
MemberConflicts(rows, new) ==
    \E r \in rows : r.user_id = new.user_id \/ r.cnic = new.cnic

(* base_fee REAL NOT NULL and total_fee REAL NOT NULL: SQLite stores a NaN  *)
(* as NULL.                                                                 *)
NotNullViolated(new) == new.base_fee = NaN \/ new.total_fee = NaN

(* The INSERT or UPDATE of a member row raises sqlite3.IntegrityError *)
IntegrityError(rows, new) == MemberConflicts(rows, new) \/ NotNullViolated(new)

(* UNIQUE (user_id, month, period) of payments: SQLite treats NULLs as      *)
(* distinct, so a row whose period is NULL never conflicts.                 *)
PaymentConflicts(rows, new) ==
    \E i \in 1..Len(rows) :
        /\ rows[i].user_id = new.user_id
        /\ rows[i].month = new.month
        /\ rows[i].period # NULL
        /\ new.period # NULL
        /\ rows[i].period = new.period

ActiveIds(rows) == {r.user_id : r \in {x \in rows : x.is_active}}

Outcome(op, result) == [op |-> op, result |-> result]

(* The other instances of the application: none is running *)
NoClients == <<>>

(* members_tree.focus() when no row of the tree has the focus *)
NoSelection == <<>>

----------------------------------------------------------------------------
(* Databases found at startup *)

InitialDBs ==
    { {},
      {MemberRow(U1, CnicA, "30-day", TRUE, BaseFee, BaseFee, TRUE, D0630)},
      {MemberRow(U1, CnicA, "15-day", FALSE, BaseFee, 0, FALSE, D0630)} }

Init ==
    /\ phase = "startup"
    /\ members \in InitialDBs
    /\ payments = <<>>
    /\ members_tree = {}
    /\ current_member = NoMember
    /\ last = Outcome("init", "")
    /\ search_results = {}
    /\ report_tree = {}
    /\ summary_label = <<>>
    /\ photos = {}
    /\ photo_path = NoPhoto
    /\ focus = NoSelection
    /\ clients = NoClients

(* load_members: the tree shows the active members *)
load_members(rows) == ActiveIds(rows)

(* Reconciled that passes over the active rows only *)
ReconciledActiveOnly(rows) ==
    { IF r.is_active /\ r.total_fee # ExpectedFee(r.base_fee, r.has_treadmill)
      THEN [r EXCEPT !.total_fee = ExpectedFee(r.base_fee, r.has_treadmill)]
      ELSE r : r \in rows }

(* The members table after the pass over all rows: UPDATE members SET       *)
(* total_fee=? WHERE user_id=? for each row whose total_fee is not the      *)
(* expected fee.                                                            *)
Reconciled(rows) ==
    { IF r.total_fee # ExpectedFee(r.base_fee, r.has_treadmill)
      THEN [r EXCEPT !.total_fee = ExpectedFee(r.base_fee, r.has_treadmill)]
      ELSE r : r \in rows }

(* update_total_fees followed by load_members, as run by __init__ *)
update_total_fees ==
    /\ phase = "startup"
    /\ members' = Reconciled(members)
    /\ members_tree' = load_members(members')
    /\ phase' = "running"
    /\ last' = Outcome("update_total_fees", "Success")
    /\ UNCHANGED <<payments, current_member, search_results, report_tree, summary_label>>
    /\ UNCHANGED <<photos, photo_path, focus, clients>>

----------------------------------------------------------------------------
(* Member management tab *)

(* The field checks shared by save_member and update_member *)
FormValid(user_id, cnic, membership, base_fee, expiry_date) ==
    /\ validate_user_id(user_id)
    /\ validate_cnic(cnic)
    /\ validate_date(expiry_date)
    /\ membership # ""
    /\ ~FloatLE(base_fee, 0)

save_member(user_id, cnic, membership, has_treadmill, base_fee, expiry_date) ==
    /\ phase = "running"
    /\ LET has_photo == photo_path # NoPhoto
           stored == StoredPath(user_id, photo_path.ext)
           new == PhotoRow(MemberRow(user_id, cnic, membership, has_treadmill, base_fee,
                                     ExpectedFee(base_fee, has_treadmill), TRUE,
                                     expiry_date),
                           IF has_photo THEN stored ELSE NoPhoto)
           written == IF has_photo THEN Saved(photos, photo_path, stored) ELSE photos
       IN  IF ~FormValid(user_id, cnic, membership, base_fee, expiry_date)
           THEN /\ last' = Outcome("save_member", "ValidationError")
                /\ UNCHANGED <<members, members_tree, photos, photo_path, focus>>
           ELSE IF has_photo /\ photo_path.ext \notin AllowedExtensions
           THEN /\ last' = Outcome("save_member", "ValidationError")
                /\ UNCHANGED <<members, members_tree, photos, photo_path, focus>>
           ELSE IF has_photo /\ ~FileExists(photos, photo_path)
           THEN /\ last' = Outcome("save_member", "Failed")
                /\ UNCHANGED <<members, members_tree, photos, photo_path, focus>>
           ELSE IF IntegrityError(members, new)
           THEN /\ last' = Outcome("save_member", "DuplicateKeyError")
                /\ photos' = written
                /\ UNCHANGED <<members, members_tree, photo_path, focus>>
           ELSE /\ members' = members \cup {new}
                /\ members_tree' = load_members(members')
                /\ photos' = written
                /\ photo_path' = NoPhoto
                /\ focus' = NoSelection
                /\ last' = Outcome("save_member", "Success")
    /\ UNCHANGED <<phase, payments, current_member, search_results, report_tree,
                   summary_label, clients>>

(* UpdateTargets without the is_active=1 condition *)
UpdateTargetsAnyRow(rows, old_user_id) ==
    {r \in rows : r.user_id = old_user_id}

(* UPDATE members SET ... WHERE user_id=? AND is_active=1 *)
UpdateTargets(rows, old_user_id) ==
    {r \in rows : r.user_id = old_user_id /\ r.is_active}

update_member(selected, user_id, cnic, membership, has_treadmill, base_fee, expiry_date) ==
    /\ phase = "running"
    /\ LET old_user_id == TreeValue(selected)
           targets == UpdateTargets(members, old_user_id)
           old_photo == (CHOOSE r \in members : r.user_id = old_user_id).photo_path
           has_photo == photo_path # NoPhoto
           stored == StoredPath(user_id, photo_path.ext)
           written == Saved(photos, photo_path, stored)
           assets == IF ~has_photo THEN photos
                     ELSE IF old_photo # NoPhoto /\ FileExists(written, old_photo)
                     THEN Removed(written, old_photo)
                     ELSE written
           rewritten(r) == PhotoRow(MemberRow(user_id, cnic, membership, has_treadmill,
                                              base_fee,
                                              ExpectedFee(base_fee, has_treadmill),
                                              r.is_active, expiry_date),
                                    IF has_photo THEN stored ELSE old_photo)
       IN  IF selected = NoSelection
           THEN /\ last' = Outcome("update_member", "NoSelection")
                /\ UNCHANGED <<members, members_tree, photos, photo_path, focus>>
           ELSE IF ~FormValid(user_id, cnic, membership, base_fee, expiry_date)
           THEN /\ last' = Outcome("update_member", "ValidationError")
                /\ UNCHANGED <<members, members_tree, photos, photo_path, focus>>
           ELSE IF ~\E r \in members : r.user_id = old_user_id
           THEN /\ last' = Outcome("update_member", "Failed")
                /\ UNCHANGED <<members, members_tree, photos, photo_path, focus>>
           ELSE IF has_photo /\ photo_path.ext \notin AllowedExtensions
           THEN /\ last' = Outcome("update_member", "ValidationError")
                /\ UNCHANGED <<members, members_tree, photos, photo_path, focus>>
           ELSE IF has_photo /\ ~FileExists(photos, photo_path)
           THEN /\ last' = Outcome("update_member", "Failed")
                /\ UNCHANGED <<members, members_tree, photos, photo_path, focus>>
           ELSE IF \E r \in targets : IntegrityError(members \ {r}, rewritten(r))
           THEN /\ last' = Outcome("update_member", "DuplicateKeyError")
                /\ photos' = assets
                /\ UNCHANGED <<members, members_tree, photo_path, focus>>
           ELSE /\ members' = (members \ targets) \cup {rewritten(r) : r \in targets}
                /\ members_tree' = load_members(members')
                /\ photos' = assets
                /\ photo_path' = NoPhoto
                /\ focus' = NoSelection
                /\ last' = Outcome("update_member", "Success")
    /\ UNCHANGED <<phase, payments, current_member, search_results, report_tree,
                   summary_label, clients>>

(* UPDATE members SET is_active=0 WHERE user_id=? *)
Deactivated(rows, user_id) ==
    { IF r.user_id = user_id THEN [r EXCEPT !.is_active = FALSE] ELSE r : r \in rows }

delete_member(selected) ==
    /\ phase = "running"
    /\ LET user_id == TreeValue(selected)
           stored == (CHOOSE r \in members : r.user_id = user_id).photo_path
       IN  IF selected = NoSelection
           THEN /\ last' = Outcome("delete_member", "NoSelection")
                /\ UNCHANGED <<members, members_tree, photos, photo_path, focus>>
           ELSE IF ~\E r \in members : r.user_id = user_id
           THEN /\ last' = Outcome("delete_member", "Failed")
                /\ UNCHANGED <<members, members_tree, photos, photo_path, focus>>
           ELSE /\ photos' = IF stored # NoPhoto THEN Removed(photos, stored) ELSE photos
                /\ members' = Deactivated(members, user_id)
                /\ members_tree' = load_members(members')
                /\ photo_path' = NoPhoto
                /\ focus' = NoSelection
                /\ last' = Outcome("delete_member", "Success")
    /\ UNCHANGED <<phase, payments, current_member, search_results, report_tree,
                   summary_label, clients>>

(* The file dialog of upload_photo returns file_path *)
upload_photo(file_path) ==
    /\ phase = "running"
    /\ photo_path' = file_path
    /\ last' = Outcome("upload_photo", "Success")
    /\ UNCHANGED <<phase, members, payments, members_tree, current_member,
                   search_results, report_tree, summary_label, photos, focus, clients>>

(* A click on a row of the members tree: the row gets the focus, the form is *)
(* cleared and filled from the row, and the photo stored for the member      *)
(* becomes the photo of the form.                                            *)
load_selected_member(selected) ==
    /\ phase = "running"
    /\ selected \in members_tree
    /\ focus' = selected
    /\ LET user_id == TreeValue(selected)
       IN  IF \E r \in members : r.user_id = user_id
           THEN /\ photo_path' = (CHOOSE r \in members : r.user_id = user_id).photo_path
                /\ last' = Outcome("load_selected_member", "Success")
           ELSE /\ photo_path' = NoPhoto
                /\ last' = Outcome("load_selected_member", "Failed")
    /\ UNCHANGED <<phase, members, payments, members_tree, current_member,
                   search_results, report_tree, summary_label, photos, clients>>

----------------------------------------------------------------------------
(* Record payment tab *)

SearchInputs == {U1, U01, CnicA, CnicB, UBad}

(* SELECT ... WHERE (user_id=? OR cnic=?) AND is_active=1 *)
SearchMatches(rows, search_value) ==
    {r \in rows : (r.user_id = search_value \/ r.cnic = search_value) /\ r.is_active}

Snapshot(r) ==
    [bound |-> TRUE, user_id |-> r.user_id,
     membership_type |-> r.membership_type, total_fee |-> r.total_fee]

search_member(search_value) ==
    /\ phase = "running"
    /\ IF SearchMatches(members, search_value) # {}
       THEN /\ \E r \in SearchMatches(members, search_value) :
                  current_member' = Snapshot(r)
            /\ last' = Outcome("search_member", "Found")
       ELSE /\ last' = Outcome("search_member", "NotFound")
            /\ UNCHANGED current_member
    /\ UNCHANGED <<phase, members, payments, members_tree, search_results, report_tree,
                   summary_label>>
    /\ UNCHANGED <<photos, photo_path, focus, clients>>

(* ExistingPeriods with the month left out of the WHERE clause *)
ExistingPeriodsAnyMonth(rows, user_id, month) ==
    {rows[i].period : i \in {j \in 1..Len(rows) : rows[j].user_id = user_id}}

(* SELECT period FROM payments WHERE user_id=? AND month=? *)
ExistingPeriods(rows, user_id, month) ==
    {rows[i].period : i \in {j \in 1..Len(rows) :
                                 rows[j].user_id = user_id /\ rows[j].month = month}}

Exhausted == "Exhausted"

(* AllocatePeriod handing out the second half first *)
AllocatePeriodSecondFirst(membership_type, existing_periods) ==
    IF membership_type = "15-day"
    THEN IF "second_half" \notin existing_periods THEN "second_half"
         ELSE IF "first_half" \notin existing_periods THEN "first_half"
         ELSE Exhausted
    ELSE NULL

AllocatePeriod(membership_type, existing_periods) ==
    IF membership_type = "15-day"
    THEN IF "first_half" \notin existing_periods THEN "first_half"
         ELSE IF "second_half" \notin existing_periods THEN "second_half"
         ELSE Exhausted
    ELSE NULL

(* Retyped that also moves the expiry date of the member to 2024-07-01 *)
RetypedAndExtended(rows, user_id, membership_type) ==
    { IF r.user_id = user_id
      THEN [r EXCEPT !.membership_type = membership_type, !.expiry_date = D0701]
      ELSE r : r \in rows }

(* UPDATE members SET membership_type=? WHERE user_id=? *)
Retyped(rows, user_id, membership_type) ==
    { IF r.user_id = user_id THEN [r EXCEPT !.membership_type = membership_type] ELSE r :
      r \in rows }

PaymentRow(user_id, amount, month, period) ==
    [user_id |-> user_id, amount |-> amount, month |-> month, period |-> period]

(* InsertPayment as INSERT OR REPLACE on (user_id, month) *)
InsertOrReplacePayment(rows, new) ==
    IF \E i \in 1..Len(rows) : rows[i].user_id = new.user_id /\ rows[i].month = new.month
    THEN [i \in 1..Len(rows) |->
             IF rows[i].user_id = new.user_id /\ rows[i].month = new.month
             THEN new ELSE rows[i]]
    ELSE Append(rows, new)

(* INSERT INTO payments: the new row gets the next id *)
InsertPayment(rows, new) == Append(rows, new)

record_payment(amount, month, membership_type) ==
    /\ phase = "running"
    /\ LET retyped == IF membership_type # current_member.membership_type
                      THEN Retyped(members, current_member.user_id, membership_type)
                      ELSE members
           period == AllocatePeriod(membership_type,
                                    ExistingPeriods(payments, current_member.user_id, month))
           new == PaymentRow(current_member.user_id, amount, month, period)
       IN  IF ~current_member.bound
           THEN /\ last' = Outcome("record_payment", "NoActiveMemberError")
                /\ UNCHANGED <<members, payments, current_member>>
           ELSE IF amount <= 0 \/ ~validate_month(month) \/ membership_type = ""
           THEN /\ last' = Outcome("record_payment", "ValidationError")
                /\ UNCHANGED <<members, payments, current_member>>
           ELSE IF amount # current_member.total_fee
           THEN /\ last' = Outcome("record_payment", "AmountMismatchError")
                /\ UNCHANGED <<members, payments, current_member>>
           ELSE IF period = Exhausted
           THEN /\ members' = retyped
                /\ last' = Outcome("record_payment", "PeriodExhaustedError")
                /\ UNCHANGED <<payments, current_member>>
           ELSE IF PaymentConflicts(payments, new)
           THEN /\ members' = retyped
                /\ last' = Outcome("record_payment", "DuplicatePaymentError")
                /\ UNCHANGED <<payments, current_member>>
           ELSE /\ Len(payments) < MaxPayments
                /\ members' = retyped
                /\ payments' = InsertPayment(payments, new)
                /\ current_member' = NoMember
                /\ last' = Outcome("record_payment", "Success")
    /\ UNCHANGED <<phase, members_tree, search_results, report_tree, summary_label>>
    /\ UNCHANGED <<photos, photo_path, focus, clients>>

----------------------------------------------------------------------------
(* Search box of the member management tab *)

(* The query search_members runs: an all-digit value is looked up as a      *)
(* user_id, any other value as a cnic.                                      *)
SearchMembersMatches(rows, search_value) ==
    IF validate_user_id(search_value)
    THEN {r \in rows : r.user_id = search_value /\ r.is_active}
    ELSE {r \in rows : r.cnic = search_value /\ r.is_active}

search_members(search_value) ==
    /\ phase = "running"
    /\ IF search_value = <<>>
       THEN /\ last' = Outcome("search_members", "NoInput")
            /\ UNCHANGED search_results
       ELSE /\ search_results' =
                   {r.user_id : r \in SearchMembersMatches(members, search_value)}
            /\ last' = Outcome("search_members",
                               IF SearchMembersMatches(members, search_value) # {}
                               THEN "Found" ELSE "NotFound")
    /\ UNCHANGED <<phase, members, payments, members_tree, current_member, report_tree,
                   summary_label>>
    /\ UNCHANGED <<photos, photo_path, focus, clients>>

----------------------------------------------------------------------------
(* Reports tab *)

PaymentReportTypes == {"All Members", "30-Day Plan", "15-Day Plan"}

(* SELECT ... FROM payments p JOIN members m ON p.user_id = m.user_id       *)
(* WHERE p.month = ? [AND m.membership_type = ...]                          *)
PaymentReportData(member_rows, payment_rows, report_type, month) ==
    { [id |-> x[1], user_id |-> x[2].user_id,
       membership_type |-> x[2].membership_type,
       amount |-> payment_rows[x[1]].amount, period |-> payment_rows[x[1]].period] :
      x \in { y \in (1..Len(payment_rows)) \X member_rows :
                 /\ payment_rows[y[1]].user_id = y[2].user_id
                 /\ payment_rows[y[1]].month = month
                 /\ report_type = "30-Day Plan" => y[2].membership_type = "30-day"
                 /\ report_type = "15-Day Plan" => y[2].membership_type = "15-day" } }

RECURSIVE SumAmounts(_)
SumAmounts(data) ==
    IF data = {} THEN 0
    ELSE LET row == CHOOSE r \in data : TRUE
         IN  row.amount + SumAmounts(data \ {row})

generate_payment_report(report_type, month) ==
    /\ phase = "running"
    /\ LET data == PaymentReportData(members, payments, report_type, month)
       IN  IF data = {}
           THEN /\ report_tree' = {}
                /\ summary_label' = <<>>
                /\ last' = Outcome("generate_payment_report", "NoData")
           ELSE /\ report_tree' = data
                /\ summary_label' = <<"Total Revenue", SumAmounts(data),
                                      "Payments", Cardinality(data),
                                      "Unique Members",
                                      Cardinality({row.user_id : row \in data})>>
                /\ last' = Outcome("generate_payment_report", "Success")
    /\ UNCHANGED <<phase, members, payments, members_tree, current_member,
                   search_results>>
    /\ UNCHANGED <<photos, photo_path, focus, clients>>

(* The first day of the month after the billing month, as strftime prints it *)
EndDate(month) ==
    LET year == ToInt(SubSeq(month, 1, 4))
        mon == ToInt(SubSeq(month, 6, Len(month)))
        next_month == IF mon < 12 THEN [year |-> year, month |-> mon + 1]
                      ELSE [year |-> year + 1, month |-> 1]
    IN  Padded(next_month.year, 4) \o <<"-">> \o Padded(next_month.month, 2)
        \o <<"-">> \o Padded(1, 2)

(* SELECT ... FROM members m WHERE m.expiry_date < ? AND m.is_active = 1 *)
ExpiredData(member_rows, end_date) ==
    { [user_id |-> r.user_id, membership_type |-> r.membership_type,
       expiry_date |-> r.expiry_date] :
      r \in {m \in member_rows : TextLess(m.expiry_date, end_date) /\ m.is_active} }

generate_expired_report(month) ==
    /\ phase = "running"
    /\ LET data == ExpiredData(members, EndDate(month))
       IN  IF data = {}
           THEN /\ report_tree' = {}
                /\ summary_label' = <<>>
                /\ last' = Outcome("generate_expired_report", "NoData")
           ELSE /\ report_tree' = data
                /\ summary_label' = <<"Expired Members", Cardinality(data)>>
                /\ last' = Outcome("generate_expired_report", "Success")
    /\ UNCHANGED <<phase, members, payments, members_tree, current_member,
                   search_results>>
    /\ UNCHANGED <<photos, photo_path, focus, clients>>

----------------------------------------------------------------------------

NextWith(forms, pays) ==
    \/ update_total_fees
    \/ \E f \in forms :
          save_member(f.user_id, f.cnic, f.membership, f.has_treadmill, f.base_fee,
                      f.expiry_date)
    \/ \E selected \in members_tree \cup {NoSelection}, f \in forms :
          update_member(selected, f.user_id, f.cnic, f.membership, f.has_treadmill,
                        f.base_fee, f.expiry_date)
    \/ \E selected \in members_tree \cup {NoSelection} : delete_member(selected)
    \/ \E search_value \in SearchInputs : search_member(search_value)
    \/ \E p \in pays : record_payment(p.amount, p.month, p.membership_type)

(* The ledger exploration *)
Next == NextWith(LedgerForms, PaymentInputs)

Spec == Init /\ [][Next]_vars

(* The member-management exploration *)
NextMembers == NextWith(FormInputs, MemberPayments)

SpecMembers == Init /\ [][NextMembers]_vars

(* The reports exploration: databases that already hold payments, members   *)
(* with different expiry dates, the search box and the reports.             *)
ReportDBs ==
    { [members |-> {}, payments |-> <<>>],
      [members |-> {MemberRow(U1, CnicA, "30-day", TRUE, BaseFee, BaseFee, TRUE, D0630)},
       payments |-> <<PaymentRow(U1, BaseFee, M06, NULL)>>],
      [members |-> {MemberRow(U2, CnicB, "15-day", FALSE, BaseFee, 0, FALSE, D1231)},
       payments |-> <<PaymentRow(U2, BaseFee, M12, "first_half")>>] }

InitReports ==
    /\ phase = "startup"
    /\ \E db \in ReportDBs : members = db.members /\ payments = db.payments
    /\ members_tree = {}
    /\ current_member = NoMember
    /\ last = Outcome("init", "")
    /\ search_results = {}
    /\ report_tree = {}
    /\ summary_label = <<>>
    /\ photos = {}
    /\ photo_path = NoPhoto
    /\ focus = NoSelection
    /\ clients = NoClients

ReportForms ==
    { DatedForm(U1, CnicA, "30-day", FALSE, BaseFee, D0630Short),
      DatedForm(U2, CnicA, "15-day", FALSE, BaseFee, D0701),
      DatedForm(U1, CnicA, "30-day", FALSE, BaseFee, D0631) }

ReportPayments ==
    { PaymentForm(BaseFee, M06, "30-day"),
      PaymentForm(BaseFee, M06, "15-day") }

ReportMonths == {M06, M12}

ReportSearches == {U1}

ManagementSearches == {U1, CnicA, <<>>}

NextReports ==
    \/ update_total_fees
    \/ \E f \in ReportForms :
          save_member(f.user_id, f.cnic, f.membership, f.has_treadmill, f.base_fee,
                      f.expiry_date)
    \/ \E selected \in members_tree \cup {NoSelection}, f \in ReportForms :
          update_member(selected, f.user_id, f.cnic, f.membership, f.has_treadmill,
                        f.base_fee, f.expiry_date)
    \/ \E selected \in members_tree \cup {NoSelection} : delete_member(selected)
    \/ \E search_value \in ReportSearches : search_member(search_value)
    \/ \E p \in ReportPayments : record_payment(p.amount, p.month, p.membership_type)
    \/ \E search_value \in ManagementSearches : search_members(search_value)
    \/ \E report_type \in PaymentReportTypes : generate_payment_report(report_type, M06)
    \/ \E month \in ReportMonths : generate_expired_report(month)

SpecReports == InitReports /\ [][NextReports]_vars

----------------------------------------------------------------------------
(* Properties of the payment ledger *)

(* A record_payment step with payment form p that passes the field checks   *)
(* and the amount check for the bound member.                               *)
AcceptedPayment(p) ==
    /\ current_member.bound
    /\ p.amount > 0
    /\ validate_month(p.month)
    /\ p.membership_type # ""
    /\ p.amount = current_member.total_fee
    /\ record_payment(p.amount, p.month, p.membership_type)

(* C1: for a member whose stored membership_type is 30-day, once a payment  *)
(* with period NULL exists for month M, a further 30-day RecordPayment of   *)
(* the total fee for that member and month fails with DuplicatePaymentError *)
(* and inserts no row.                                                      *)
C1_SecondMonthlyPaymentRejected ==
    [][last'.op = "record_payment"
       => \A p \in PaymentInputs :
             ( /\ p.membership_type = "30-day"
               /\ \E r \in members : /\ r.user_id = current_member.user_id
                                     /\ r.membership_type = "30-day"
               /\ NULL \in ExistingPeriods(payments, current_member.user_id, p.month)
               /\ AcceptedPayment(p) )
             => ( /\ last'.result = "DuplicatePaymentError"
                  /\ payments' = payments )]_vars

(* C2: no two payment rows have the same user_id, month and period, two     *)
(* NULL periods counting as the same period.                                *)
C2_PaymentTripleUnique ==
    \A i, j \in 1..Len(payments) :
        ( /\ payments[i].user_id = payments[j].user_id
          /\ payments[i].month = payments[j].month
          /\ payments[i].period = payments[j].period ) => i = j

(* C3: a 15-day RecordPayment of the total fee for month M stores period    *)
(* first_half when the member has no payment in M, stores second_half when  *)
(* the member has just the first_half payment in M, and fails with          *)
(* PeriodExhaustedError, inserting nothing, when both halves are there: the *)
(* three successive calls of the claim.                                     *)
C3_HalvesThenExhausted ==
    [][\A p \in PaymentInputs :
          (last'.op = "record_payment" /\ p.membership_type = "15-day" /\ AcceptedPayment(p))
          => LET user_id == current_member.user_id
                 existing == ExistingPeriods(payments, user_id, p.month)
                 stored(period) ==
                     /\ last'.result = "Success"
                     /\ payments' = Append(payments,
                                           PaymentRow(user_id, p.amount, p.month, period))
             IN  /\ existing = {} => stored("first_half")
                 /\ existing = {"first_half"} => stored("second_half")
                 /\ existing = {"first_half", "second_half"}
                       => ( /\ last'.result = "PeriodExhaustedError"
                            /\ payments' = payments )]_vars

(* C3 witness: the third call has failed, both halves of a month being paid *)
C3_Witness ==
    /\ last = Outcome("record_payment", "PeriodExhaustedError")
    /\ \E i, j \in 1..Len(payments) :
          /\ i < j
          /\ payments[i].user_id = payments[j].user_id
          /\ payments[i].month = payments[j].month
          /\ payments[i].period = "first_half"
          /\ payments[j].period = "second_half"

(* C4: the payment row just inserted by RecordPayment has the amount that   *)
(* is stored as total_fee for its member at that moment.                    *)
C4_AmountIsStoredFee ==
    last = Outcome("record_payment", "Success")
    => \A r \in members :
          r.user_id = payments[Len(payments)].user_id
          => payments[Len(payments)].amount = r.total_fee

----------------------------------------------------------------------------
(* Properties of member management *)

(* C5: once the startup pass has run, every member row, active or not, has  *)
(* total_fee = base_fee + (400 if has_treadmill else 0).                    *)
C5_TotalFeeDerived ==
    phase = "running"
    => \A r \in members :
          r.total_fee = r.base_fee + (IF r.has_treadmill THEN TreadmillFee ELSE 0)

(* C5 witness: after a successful Update, with a treadmill member and an    *)
(* inactive member in the table                                             *)
C5_Witness ==
    /\ last = Outcome("update_member", "Success")
    /\ \E r \in members : r.has_treadmill
    /\ \E r \in members : ~r.is_active

(* C6: a well-formed Create whose user_id or cnic is already in the members *)
(* table fails with DuplicateKeyError and changes no member or payment row: *)
(* no save_member step on such a form ends otherwise.                       *)
C6_DuplicateCreateRejected ==
    \A f \in FormInputs :
        ( /\ FormValid(f.user_id, f.cnic, f.membership, f.base_fee, f.expiry_date)
          /\ \E r \in members : r.user_id = f.user_id \/ r.cnic = f.cnic )
        => ~ENABLED ( /\ save_member(f.user_id, f.cnic, f.membership, f.has_treadmill,
                                     f.base_fee, f.expiry_date)
                      /\ ~( /\ last'.result = "DuplicateKeyError"
                            /\ members' = members
                            /\ payments' = payments ) )

(* C6 witness: a Create has just been refused as a duplicate *)
C6_Witness ==
    /\ last = Outcome("save_member", "DuplicateKeyError")
    /\ members # {}

UniqueKeys(rows) ==
    \A r1, r2 \in rows :
        (r1.user_id = r2.user_id \/ r1.cnic = r2.cnic) => r1 = r2

(* C7: no two member rows, inactive ones included, share a user_id or a     *)
(* cnic; a well-formed Create, and a well-formed Update of an active row,   *)
(* that would give a member the user_id or cnic of an inactive row is       *)
(* refused with DuplicateKeyError and changes no member row.                *)
C7_KeysUniqueAcrossInactive ==
    /\ UniqueKeys(members)
    /\ \A f \in FormInputs :
          ( /\ FormValid(f.user_id, f.cnic, f.membership, f.base_fee, f.expiry_date)
            /\ \E r \in members :
                  ~r.is_active /\ (r.user_id = f.user_id \/ r.cnic = f.cnic) )
          => ~ENABLED ( /\ save_member(f.user_id, f.cnic, f.membership, f.has_treadmill,
                                       f.base_fee, f.expiry_date)
                        /\ ~( /\ last'.result = "DuplicateKeyError"
                              /\ members' = members ) )
    /\ \A selected \in members_tree, f \in FormInputs :
          ( /\ FormValid(f.user_id, f.cnic, f.membership, f.base_fee, f.expiry_date)
            /\ \E t \in members : t.user_id = TreeValue(selected) /\ t.is_active
            /\ \E r \in members :
                  /\ ~r.is_active
                  /\ r.user_id # TreeValue(selected)
                  /\ (r.user_id = f.user_id \/ r.cnic = f.cnic) )
          => ~ENABLED ( /\ update_member(selected, f.user_id, f.cnic, f.membership,
                                         f.has_treadmill, f.base_fee, f.expiry_date)
                        /\ ~( /\ last'.result = "DuplicateKeyError"
                              /\ members' = members ) )

(* C7 witness: an Update of the only active row has just been refused, the  *)
(* only other row being inactive                                            *)
C7_Witness ==
    /\ last = Outcome("update_member", "DuplicateKeyError")
    /\ Cardinality(members) = 2
    /\ Cardinality({r \in members : r.is_active}) = 1
    /\ \A r \in members : r.user_id = TreeValue(r.user_id)

(* C8: a Deactivate of the member u selected in the tree that reports       *)
(* success leaves u inactive and out of the tree and of the payment-tab     *)
(* search, changes no other member row and no payment row.                  *)
C8_DeactivateHitsSelectedMember ==
    [][\A u \in members_tree :
          (last' = Outcome("delete_member", "Success") /\ delete_member(u))
          => ( /\ members' = { IF r.user_id = u THEN [r EXCEPT !.is_active = FALSE] ELSE r :
                               r \in members }
               /\ u \notin load_members(members')
               /\ SearchMatches(members', u) = {}
               /\ payments' = payments )]_vars

(* C9: a member row that is inactive stays in the table, inactive, under    *)
(* the same user_id, whatever step follows.                                 *)
C9_DeactivationPermanent ==
    [][\A r \in members :
          ~r.is_active
          => \E r2 \in members' : r2.user_id = r.user_id /\ ~r2.is_active]_vars

(* C9 witness: a member has just been created next to a deactivated one     *)
C9_Witness ==
    /\ last = Outcome("save_member", "Success")
    /\ \E r \in members : ~r.is_active

(* C10: a well-formed Update addressed to a row that is inactive changes no *)
(* member and no payment row and does not report success.                   *)
C10_UpdateOfInactiveNotSuccess ==
    [][last'.op = "update_member"
       => \A selected \in members_tree, f \in FormInputs :
             ( /\ FormValid(f.user_id, f.cnic, f.membership, f.base_fee, f.expiry_date)
               /\ \E r \in members : r.user_id = TreeValue(selected) /\ ~r.is_active
               /\ update_member(selected, f.user_id, f.cnic, f.membership,
                                f.has_treadmill, f.base_fee, f.expiry_date) )
             => ( /\ members' = members
                  /\ payments' = payments
                  /\ last'.result # "Success" )]_vars

----------------------------------------------------------------------------
(* Properties of plan changes made by RecordPayment *)

(* C11: after every successful RecordPayment the membership_type stored for *)
(* the paying member is the type supplied with the payment, and the period  *)
(* of the new row is the one allocated under the supplied type; also when   *)
(* the stored type was changed by Update after the member was selected.     *)
C11_StoredTypeIsSuppliedType ==
    [][last'.op = "record_payment"
       => \A p \in PaymentInputs :
             (AcceptedPayment(p) /\ last'.result = "Success")
             => ( /\ \A r \in members' :
                        r.user_id = current_member.user_id
                        => r.membership_type = p.membership_type
                  /\ payments'[Len(payments')].period =
                        AllocatePeriod(p.membership_type,
                                       ExistingPeriods(payments, current_member.user_id,
                                                       p.month)) )]_vars

(* C12: a RecordPayment that fails, for whatever reason, leaves the members *)
(* table and the payments table as they were before the call.               *)
C12_FailedPaymentChangesNothing ==
    [][(last'.op = "record_payment" /\ last'.result # "Success")
       => \A p \in PaymentInputs :
             record_payment(p.amount, p.month, p.membership_type)
             => (members' = members /\ payments' = payments)]_vars

(* The payment rows of one member in one month *)
RowsOf(user_id, month) ==
    {i \in 1..Len(payments) : payments[i].user_id = user_id /\ payments[i].month = month}

(* C13: a member whose stored membership_type is 15-day has, in every       *)
(* month, at most two payment rows, and their periods are first_half and    *)
(* second_half, each at most once.                                          *)
C13_AtMostTwoHalvesPerMonth ==
    \A r \in members :
        r.membership_type = "15-day"
        => \A month \in Months :
              /\ Cardinality(RowsOf(r.user_id, month)) <= 2
              /\ \A i, j \in RowsOf(r.user_id, month) :
                    /\ payments[i].period \in {"first_half", "second_half"}
                    /\ payments[i].period = payments[j].period => i = j

----------------------------------------------------------------------------
(* Frame properties of the ledger *)

(* C14: the payments table is append-only: whatever step is taken, every    *)
(* payment row that exists keeps its position and all its fields, and no    *)
(* row is removed.                                                          *)
C14_PaymentsAppendOnly ==
    [][/\ Len(payments') >= Len(payments)
       /\ \A i \in 1..Len(payments) : payments'[i] = payments[i]]_vars

(* C14 witness: an Update has just given a new user_id to a member who has  *)
(* a payment, the payment row still carrying the old user_id                *)
C14_Witness ==
    /\ last = Outcome("update_member", "Success")
    /\ \E i \in 1..Len(payments) :
          payments[i].user_id \notin {r.user_id : r \in members}

(* C15: a RecordPayment step, successful or not, leaves the expiry_date of  *)
(* every member row as it was; a successful one changes at most the         *)
(* membership_type of the row of the paying member.                         *)
C15_PaymentKeepsExpiryDate ==
    [][last'.op = "record_payment"
       => ( /\ Cardinality(members') = Cardinality(members)
            /\ \A r \in members :
                  \E r2 \in members' :
                      r2.user_id = r.user_id /\ r2.expiry_date = r.expiry_date
            /\ (last'.result = "Success")
                  => \A r \in members :
                        \/ r \in members'
                        \/ /\ r.user_id = payments'[Len(payments')].user_id
                           /\ \E t \in MembershipTypes :
                                 [r EXCEPT !.membership_type = t] \in members' )]_vars

(* C15 witness: a payment has just switched member 1, created as a 30-day   *)
(* member expiring on 2024-6-30, to the 15-day plan                         *)
C15_Witness ==
    /\ last = Outcome("record_payment", "Success")
    /\ payments[Len(payments)].user_id = U1
    /\ \E r \in members :
          /\ r.user_id = U1
          /\ r.membership_type = "15-day"
          /\ r.expiry_date = D0630Short

----------------------------------------------------------------------------
(* Properties of the reports and of the search box *)

DateBefore(a, b) ==
    \/ a.year < b.year
    \/ a.year = b.year /\ a.month < b.month
    \/ a.year = b.year /\ a.month = b.month /\ a.day < b.day

(* The first day of the month that follows billing month YYYY-MM *)
FollowingMonthStart(month) ==
    LET year == ToInt(SubSeq(month, 1, 4))
        mon == ToInt(SubSeq(month, 6, 7))
    IN  IF mon = 12 THEN [year |-> year + 1, month |-> 1, day |-> 1]
        ELSE [year |-> year, month |-> mon + 1, day |-> 1]

(* C16: the Expired-Members report for a billing month lists exactly the    *)
(* active members whose expiry_date, as a calendar date, is before the      *)
(* first day of the following month.                                        *)
C16_ExpiredReportByCalendarDate ==
    [][last'.op = "generate_expired_report"
       => \A month \in ReportMonths :
             generate_expired_report(month)
             => {row.user_id : row \in report_tree'} =
                   {r.user_id : r \in {m \in members :
                       /\ m.is_active
                       /\ DateBefore(CalendarDate(m.expiry_date),
                                     FollowingMonthStart(month))}}]_vars

RECURSIVE LedgerSum(_)
LedgerSum(ids) ==
    IF ids = {} THEN 0
    ELSE LET i == CHOOSE x \in ids : TRUE
         IN  payments[i].amount + LedgerSum(ids \ {i})

(* C17: the All-Members payment report for a month has exactly one row for  *)
(* every payment row of that month; its total revenue is the sum of their   *)
(* amounts and its unique-member count the number of their user_ids.        *)
C17_ReportListsEveryPaymentOfMonth ==
    [][last'.op = "generate_payment_report"
       => ( generate_payment_report("All Members", M06)
            => LET ids == {i \in 1..Len(payments) : payments[i].month = M06}
               IN  /\ {row.id : row \in report_tree'} = ids
                   /\ Cardinality(report_tree') = Cardinality(ids)
                   /\ ids # {}
                         => summary_label' =
                               <<"Total Revenue", LedgerSum(ids),
                                 "Payments", Cardinality(ids),
                                 "Unique Members",
                                 Cardinality({payments[i].user_id : i \in ids})>> )]_vars

(* C18: the search box of the member tab, given a user_id or a 13-digit     *)
(* cnic, shows exactly the active member that has it.                       *)
C18_SearchByUserIdOrCnic ==
    [][last'.op = "search_members"
       => \A search_value \in ManagementSearches \ {<<>>} :
             search_members(search_value)
             => search_results' =
                   {r.user_id : r \in {m \in members :
                       /\ m.is_active
                       /\ (m.user_id = search_value \/ m.cnic = search_value)}}]_vars

(* C19: RecordPayment inserts a row only when a member is bound whose row   *)
(* is active at that moment; otherwise it inserts nothing and does not      *)
(* succeed, and with no member bound it fails with NoActiveMemberError.     *)
C19_PaymentOnlyForActiveMember ==
    [][last'.op = "record_payment"
       => LET active == /\ current_member.bound
                        /\ \E r \in members :
                              r.user_id = current_member.user_id /\ r.is_active
          IN  /\ ~active => (payments' = payments /\ last'.result # "Success")
              /\ ~current_member.bound => last'.result = "NoActiveMemberError"]_vars

----------------------------------------------------------------------------
(* Member management with photos: a database whose first member has a photo, *)
(* forms that keep or change the key of a member, and the row that has the   *)
(* focus as the row the handlers act on.                                     *)

PhotoDBs ==
    { [members |-> {PhotoRow(MemberRow(U1, CnicA, "30-day", FALSE, BaseFee, BaseFee, TRUE,
                                       D0630),
                             StoredPath(U1, ".jpg"))},
       photos |-> {PhotoFile(StoredPath(U1, ".jpg"), <<"m">>)}],
      [members |-> {}, photos |-> {}] }

InitPhotos ==
    /\ phase = "startup"
    /\ \E db \in PhotoDBs : members = db.members /\ photos = db.photos
    /\ payments = <<>>
    /\ members_tree = {}
    /\ current_member = NoMember
    /\ last = Outcome("init", "")
    /\ search_results = {}
    /\ report_tree = {}
    /\ summary_label = <<>>
    /\ photo_path = NoPhoto
    /\ focus = NoSelection
    /\ clients = NoClients

PhotoForms ==
    { Form(U1, CnicA, "30-day", FALSE, BaseFee),
      Form(U1, CnicA, "30-day", TRUE, BaseFee),
      Form(U2, CnicA, "30-day", FALSE, BaseFee),
      Form(U2, CnicB, "30-day", FALSE, BaseFee),
      Form(UBad, CnicA, "30-day", FALSE, BaseFee) }

NextPhotos ==
    \/ update_total_fees
    \/ \E file_path \in PhotoFiles : upload_photo(file_path)
    \/ \E selected \in members_tree : load_selected_member(selected)
    \/ \E f \in PhotoForms :
          save_member(f.user_id, f.cnic, f.membership, f.has_treadmill, f.base_fee,
                      f.expiry_date)
    \/ \E f \in PhotoForms :
          update_member(focus, f.user_id, f.cnic, f.membership, f.has_treadmill,
                        f.base_fee, f.expiry_date)
    \/ delete_member(focus)

SpecPhotos == InitPhotos /\ [][NextPhotos]_vars

----------------------------------------------------------------------------
(* Two instances of the application on one database file.  Each instance    *)
(* has its own sqlite3 connection and its own bound member; record_payment  *)
(* of an instance is split where another instance can run: between the      *)
(* statements that read (the membership_type UPDATE, the SELECT of the      *)
(* periods, the allocation) and the INSERT with its commit.                 *)

Clients == {"A", "B"}

NoPayment == PaymentRow(<<>>, 0, <<>>, NULL)

(* An instance after startup: no member bound, no handler running, no open  *)
(* transaction.  members is the members table as its open transaction sees  *)
(* it.                                                                      *)
IdleClient ==
    [current_member |-> NoMember, pc |-> "idle", pending |-> NoPayment,
     in_transaction |-> FALSE, members |-> {}]

(* The members table as the connection of instance c sees it *)
View(c) == IF clients[c].in_transaction THEN clients[c].members ELSE members

(* Another connection holds the write lock of the database file: it has an  *)
(* open transaction that has written.                                       *)
LockHolders(c) == {d \in Clients \ {c} : clients[d].in_transaction}

(* The holder of the lock is inside a handler, which ends within the busy   *)
(* timeout of the waiting connection.                                       *)
Releasing(c) == \A d \in LockHolders(c) : clients[d].pc = "insert"

client_search_member(c, search_value) ==
    /\ phase = "running"
    /\ clients[c].pc = "idle"
    /\ IF SearchMatches(View(c), search_value) # {}
       THEN /\ \E r \in SearchMatches(View(c), search_value) :
                  clients' = [clients EXCEPT ![c].current_member = Snapshot(r)]
            /\ last' = Outcome("search_member", "Found")
       ELSE /\ last' = Outcome("search_member", "NotFound")
            /\ UNCHANGED clients
    /\ UNCHANGED <<phase, members, payments, members_tree, current_member,
                   search_results, report_tree, summary_label, photos, photo_path, focus>>

(* record_payment of instance c up to the allocation of the period *)
record_payment_read(c, amount, month, membership_type) ==
    /\ phase = "running"
    /\ clients[c].pc = "idle"
    /\ LET bound_member == clients[c].current_member
           retypes == membership_type # bound_member.membership_type
           period == AllocatePeriod(membership_type,
                                    ExistingPeriods(payments, bound_member.user_id, month))
           written == [clients[c] EXCEPT
                          !.in_transaction = TRUE,
                          !.members = Retyped(View(c), bound_member.user_id,
                                              membership_type)]
           after == IF retypes THEN written ELSE clients[c]
       IN  IF ~bound_member.bound
           THEN /\ last' = Outcome("record_payment", "NoActiveMemberError")
                /\ UNCHANGED clients
           ELSE IF amount <= 0 \/ ~validate_month(month) \/ membership_type = ""
           THEN /\ last' = Outcome("record_payment", "ValidationError")
                /\ UNCHANGED clients
           ELSE IF amount # bound_member.total_fee
           THEN /\ last' = Outcome("record_payment", "AmountMismatchError")
                /\ UNCHANGED clients
           ELSE IF retypes /\ LockHolders(c) # {}
           THEN /\ ~Releasing(c)
                /\ last' = Outcome("record_payment", "Failed")
                /\ UNCHANGED clients
           ELSE IF period = Exhausted
           THEN /\ last' = Outcome("record_payment", "PeriodExhausted")
                /\ clients' = [clients EXCEPT ![c] = after]
           ELSE /\ last' = Outcome("record_payment", "Running")
                /\ clients' = [clients EXCEPT ![c] =
                                   [after EXCEPT
                                       !.pc = "insert",
                                       !.pending = PaymentRow(bound_member.user_id, amount,
                                                              month, period)]]
    /\ UNCHANGED <<phase, members, payments, members_tree, current_member,
                   search_results, report_tree, summary_label, photos, photo_path, focus>>

(* record_payment of instance c from the INSERT on *)
record_payment_insert(c) ==
    /\ phase = "running"
    /\ clients[c].pc = "insert"
    /\ IF LockHolders(c) # {}
       THEN /\ ~Releasing(c)
            /\ last' = Outcome("record_payment", "Failed")
            /\ clients' = [clients EXCEPT ![c].pc = "idle", ![c].pending = NoPayment]
            /\ UNCHANGED <<members, payments>>
       ELSE IF PaymentConflicts(payments, clients[c].pending)
       THEN /\ last' = Outcome("record_payment", "DuplicatePaymentError")
            /\ clients' = [clients EXCEPT ![c].pc = "idle", ![c].pending = NoPayment,
                                          ![c].in_transaction = TRUE,
                                          ![c].members = View(c)]
            /\ UNCHANGED <<members, payments>>
       ELSE /\ Len(payments) < MaxPayments
            /\ payments' = InsertPayment(payments, clients[c].pending)
            /\ members' = View(c)
            /\ clients' = [clients EXCEPT ![c] = IdleClient]
            /\ last' = Outcome("record_payment", "Success")
    /\ UNCHANGED <<phase, members_tree, current_member, search_results, report_tree,
                   summary_label, photos, photo_path, focus>>

ClientDBs ==
    { {MemberRow(U1, CnicA, "30-day", FALSE, BaseFee, BaseFee, TRUE, D0630)},
      {MemberRow(U1, CnicA, "15-day", FALSE, BaseFee, BaseFee, TRUE, D0630)} }

InitClients ==
    /\ phase = "running"
    /\ members \in ClientDBs
    /\ payments = <<>>
    /\ members_tree = {}
    /\ current_member = NoMember
    /\ last = Outcome("init", "")
    /\ search_results = {}
    /\ report_tree = {}
    /\ summary_label = <<>>
    /\ photos = {}
    /\ photo_path = NoPhoto
    /\ focus = NoSelection
    /\ clients = [c \in Clients |-> IdleClient]

ClientPayments ==
    { PaymentForm(BaseFee, M06, "30-day"),
      PaymentForm(BaseFee, M06, "15-day"),
      PaymentForm(0, M06, "30-day") }

ClientSearches == {U1, U2}

NextClients ==
    \E c \in Clients :
        \/ \E search_value \in ClientSearches : client_search_member(c, search_value)
        \/ \E p \in ClientPayments :
              record_payment_read(c, p.amount, p.month, p.membership_type)
        \/ record_payment_insert(c)

SpecClients == InitClients /\ [][NextClients]_vars

----------------------------------------------------------------------------
(* Properties of keys, references and the member bound for payment *)

(* C22: in every reachable state the user_id of every payment row is the    *)
(* user_id of some member row, active or inactive.                          *)
C22_PaymentsReferenceMembers ==
    \A i \in 1..Len(payments) :
        \E r \in members : r.user_id = payments[i].user_id

(* C23: a successful Update of the member selected in the tree, made with a *)
(* form whose user_id differs from the selected key, rewrites exactly the   *)
(* active row that had the selected key, which then carries the form's      *)
(* user_id, and changes no other member row.                                *)
C23_UpdateTargetsSelectedRow ==
    [][last' = Outcome("update_member", "Success")
       => \A selected \in members_tree, f \in FormInputs :
             ( /\ f.user_id # selected
               /\ update_member(selected, f.user_id, f.cnic, f.membership,
                                f.has_treadmill, f.base_fee, f.expiry_date) )
             => \E r \in members :
                   /\ r.user_id = selected
                   /\ r.is_active
                   /\ \E r2 \in members' :
                         /\ r2.user_id = f.user_id
                         /\ r2.cnic = f.cnic
                         /\ members' = (members \ {r}) \cup {r2}]_vars

(* A month that does not have the form of four digits, a hyphen and two     *)
(* digits                                                                   *)
MonthMalformed(month) ==
    ~( /\ Len(month) = 7
       /\ \A i \in {1, 2, 3, 4, 6, 7} : month[i] \in Digits
       /\ month[5] = "-" )

(* C26: RecordPayment for a bound member with amount <= 0, a malformed      *)
(* month or an empty membership_type fails with ValidationError, inserts no *)
(* payment, changes no member row and keeps the member bound.               *)
C26_InvalidPaymentRejected ==
    [][last'.op = "record_payment"
       => \A p \in PaymentInputs :
             ( /\ current_member.bound
               /\ (p.amount <= 0 \/ MonthMalformed(p.month) \/ p.membership_type = "")
               /\ record_payment(p.amount, p.month, p.membership_type) )
             => ( /\ last'.result = "ValidationError"
                  /\ payments' = payments
                  /\ members' = members
                  /\ current_member' = current_member )]_vars

(* C26 witness: a payment form has just been rejected by a field check      *)
(* while a member is bound                                                  *)
C26_Witness ==
    /\ last = Outcome("record_payment", "ValidationError")
    /\ current_member.bound

(* C27: for every payment row with period second_half there is an earlier   *)
(* row of the same member and month with period first_half.                 *)
C27_FirstHalfBeforeSecondHalf ==
    \A j \in 1..Len(payments) :
        payments[j].period = "second_half"
        => \E i \in 1..(j - 1) :
              /\ payments[i].user_id = payments[j].user_id
              /\ payments[i].month = payments[j].month
              /\ payments[i].period = "first_half"

(* C27 witness: the payment just recorded took the second half              *)
C27_Witness ==
    /\ last = Outcome("record_payment", "Success")
    /\ payments[Len(payments)].period = "second_half"

(* C28: every row of a 30-Day Plan report is a payment with period NULL and *)
(* every row of a 15-Day Plan report is a payment with period first_half or *)
(* second_half.                                                             *)
C28_PlanReportByRecordedPlan ==
    [][last'.op = "generate_payment_report"
       => /\ generate_payment_report("30-Day Plan", M06)
             => \A row \in report_tree' : row.period = NULL
          /\ generate_payment_report("15-Day Plan", M06)
             => \A row \in report_tree' :
                   row.period \in {"first_half", "second_half"}]_vars

(* C29: a successful RecordPayment releases the bound member and a failed   *)
(* one keeps it; while no member is bound RecordPayment fails with          *)
(* NoActiveMemberError and changes nothing, and only a successful search    *)
(* binds a member; after a failure with a member bound some payment form    *)
(* can succeed without a new search.                                        *)
C29_BindingReleasedOnSuccessOnly ==
    /\ [][/\ last'.op = "record_payment"
             => ( /\ last'.result = "Success" => ~current_member'.bound
                  /\ last'.result # "Success" => current_member' = current_member
                  /\ ~current_member.bound
                        => ( /\ last'.result = "NoActiveMemberError"
                             /\ members' = members
                             /\ payments' = payments ) )
          /\ (~current_member.bound /\ current_member'.bound)
                => last' = Outcome("search_member", "Found")]_vars
    /\ []( ( /\ last.op = "record_payment"
             /\ last.result \notin {"Success", "NoActiveMemberError"}
             /\ Len(payments) < MaxPayments )
           => \E p \in PaymentInputs :
                 ENABLED ( /\ record_payment(p.amount, p.month, p.membership_type)
                           /\ last'.result = "Success" ) )

(* C29 witness: a payment has just been refused for want of a bound member, *)
(* the previous payment having released it                                  *)
C29_Witness ==
    /\ last = Outcome("record_payment", "NoActiveMemberError")
    /\ payments # <<>>

(* A member form that breaks one of the field rules: user_id all digits,    *)
(* cnic exactly 13 digits, expiry_date a calendar date, base_fee a positive *)
(* number, membership_type one of the two plans.                            *)
Malformed(f) ==
    \/ ~(f.user_id # <<>> /\ \A i \in 1..Len(f.user_id) : f.user_id[i] \in Digits)
    \/ ~(Len(f.cnic) = 13 /\ \A i \in 1..Len(f.cnic) : f.cnic[i] \in Digits)
    \/ ~strptime(f.expiry_date)
    \/ f.base_fee = NaN
    \/ f.base_fee <= 0
    \/ f.membership \notin MembershipTypes

(* C25: Create and Update reject every malformed member form with           *)
(* ValidationError and leave members and payments unchanged.                *)
C25_MalformedFormRejected ==
    \A f \in FormInputs :
        Malformed(f)
        => /\ ~ENABLED ( /\ save_member(f.user_id, f.cnic, f.membership, f.has_treadmill,
                                        f.base_fee, f.expiry_date)
                         /\ ~( /\ last'.result = "ValidationError"
                               /\ members' = members
                               /\ payments' = payments ) )
           /\ \A selected \in members_tree :
                 ~ENABLED ( /\ update_member(selected, f.user_id, f.cnic, f.membership,
                                             f.has_treadmill, f.base_fee, f.expiry_date)
                            /\ ~( /\ last'.result = "ValidationError"
                                  /\ members' = members
                                  /\ payments' = payments ) )

(* The photo reference of every active member row names a file that exists *)
PhotoReferencesExist(rows, files) ==
    \A r \in rows :
        (r.is_active /\ r.photo_path # NoPhoto) => \E x \in files : x.path = r.photo_path

(* C24: after a successful Update of a member that has a photo, taken in a  *)
(* state where every photo reference names an existing file, the photo      *)
(* reference of the member names a file that exists in the photo store.     *)
C24_UpdateKeepsPhotoReference ==
    [][( /\ last' = Outcome("update_member", "Success")
         /\ \E r \in members : r.user_id = TreeValue(focus) /\ r.photo_path # NoPhoto
         /\ PhotoReferencesExist(members, photos) )
       => PhotoReferencesExist(members', photos')]_vars

(* C30: a Create that fails with a duplicate user_id or cnic leaves the     *)
(* photo store as it was: no photo file is overwritten or removed.          *)
C30_FailedCreateKeepsPhotos ==
    [][last' = Outcome("save_member", "DuplicateKeyError") => photos' = photos]_vars

(* Two payment rows with the same user_id, month and period, two NULL       *)
(* periods counting as the same period                                      *)
SamePeriodKey(a, b) ==
    a.user_id = b.user_id /\ a.month = b.month /\ a.period = b.period

(* C21: when an instance is about to insert a payment row and the other     *)
(* instance has just inserted a row for the same user_id, month and period, *)
(* both having read before either inserted, the second insert fails with    *)
(* DuplicatePaymentError and the payments table keeps the one row.          *)
C21_RacingInsertRejected ==
    [][\A c \in Clients :
          ( /\ clients[c].pc = "insert"
            /\ last = Outcome("record_payment", "Success")
            /\ payments # <<>>
            /\ SamePeriodKey(payments[Len(payments)], clients[c].pending)
            /\ record_payment_insert(c) )
          => ( /\ last'.result = "DuplicatePaymentError"
               /\ payments' = payments )]_vars

====
